---- MODULE Spec2Model ----
(***************************************************************************)
(* NCBI FASTA downloader (NCBIcatcherv1.0.py): the resumable pagination    *)
(* loop of NCBIFastaDownloader.download_fasta_protein, its locator         *)
(* fallback chains, the download watcher _wait_for_download and the batch  *)
(* driver main().                                                          *)
(*                                                                         *)
(* File names are sequences of one-character strings, so that the regular  *)
(* expressions, os.path.splitext, str.lower, the substring tests and the   *)
(* f-string that builds the canonical name are computed, not assumed.      *)
(***************************************************************************)
EXTENDS Integers, Sequences, FiniteSets, TLC

(***************************************************************************)
(* Bounds of the model and program constants                               *)
(***************************************************************************)
\* Page ceiling of the loop `while page_num <= MAX_PAGES` (285980 in the
\* source); the model explores a small ceiling.
MAX_PAGES == 2

\* `if len(safe_name) > 100: safe_name = safe_name[:100]`
MaxFolderLen == 100

\* Number of entries of create_selectors in _configure_and_download.
NumCreateSelectors == 5

\* How many unexpected exceptions one batch meets in the places where the
\* code swallows them and carries on with the same page or the next one:
\* OSError of os.remove / os.rename in the watcher, WebDriver errors inside
\* the two clean-up methods.
MaxFaults == 1

\* The largest target page for which _jump_to_page is examined on its own.
MaxTarget == 3

\* The largest number of record checkboxes on a page for which
\* _select_all_checkboxes is examined on its own.
MaxBoxes == 3

\* The largest number of characters varied at each end of a query term for
\* which _create_safe_folder_name is examined on its own.
MaxEdge == 2

(***************************************************************************)
(* Characters and strings                                                  *)
(***************************************************************************)
DigitChars == <<"0", "1", "2", "3", "4", "5", "6", "7", "8", "9">>

Digits == {DigitChars[i] : i \in 1..10}

LowerLetters ==
  {"a", "b", "c", "d", "e", "f", "g", "h", "i", "j", "k", "l", "m",
   "n", "o", "p", "q", "r", "s", "t", "u", "v", "w", "x", "y", "z"}

UpperLetters == {"A", "F", "S", "T", "X"}

\* The characters the regular-expression class \w accepts.
WordChars == LowerLetters \cup UpperLetters \cup Digits \cup {"_"}

\* str.lower() on one character.
LowerChar(c) ==
  CASE c = "A" -> "a"
    [] c = "F" -> "f"
    [] c = "S" -> "s"
    [] c = "T" -> "t"
    [] c = "X" -> "x"
    [] OTHER -> c

\* str.lower()
Lower(s) == [i \in 1..Len(s) |-> LowerChar(s[i])]

\* `sub in s`
Contains(s, sub) ==
  \E i \in 1..(Len(s) - Len(sub) + 1) : SubSeq(s, i, i + Len(sub) - 1) = sub

\* s.endswith(suf)
EndsWith(s, suf) ==
  /\ Len(suf) <= Len(s)
  /\ SubSeq(s, Len(s) - Len(suf) + 1, Len(s)) = suf

\* str(n) for n >= 0
RECURSIVE Str(_)
Str(n) ==
  IF n < 10 THEN <<DigitChars[n + 1]>>
  ELSE Str(n \div 10) \o <<DigitChars[(n % 10) + 1]>>

DigitVal(c) == (CHOOSE i \in 1..10 : DigitChars[i] = c) - 1

\* int(ds) for a non-empty sequence of digits
RECURSIVE ToInt(_)
ToInt(ds) ==
  IF Len(ds) = 0 THEN 0
  ELSE ToInt(SubSeq(ds, 1, Len(ds) - 1)) * 10 + DigitVal(ds[Len(ds)])

\* os.path.splitext(file)[1] for a bare file name: the text from the last
\* dot on, unless only dots precede that dot (leading dots are not an
\* extension), and "" when there is no dot.
SplitExt(file) ==
  LET dots == {i \in 1..Len(file) : file[i] = "."}
  IN IF dots = {} THEN << >>
     ELSE LET d == CHOOSE i \in dots : \A j \in dots : j <= i
          IN IF \E k \in 1..(d - 1) : file[k] # "."
             THEN SubSeq(file, d, Len(file))
             ELSE << >>

(***************************************************************************)
(* _create_safe_folder_name                                                *)
(***************************************************************************)
\* The character class of re.sub(r'[<>:"/\\|?*]', '_', search_term)
UnsafeChars == {"<", ">", ":", "\"", "/", "\\", "|", "?", "*"}

StripChars == {".", " "}

\* str.strip('. ')
RECURSIVE LStrip(_)
LStrip(s) ==
  IF Len(s) > 0 /\ s[1] \in StripChars THEN LStrip(Tail(s)) ELSE s

RECURSIVE RStrip(_)
RStrip(s) ==
  IF Len(s) > 0 /\ s[Len(s)] \in StripChars
  THEN RStrip(SubSeq(s, 1, Len(s) - 1))
  ELSE s

_create_safe_folder_name(search_term) ==
  LET subbed == [i \in 1..Len(search_term) |->
                   IF search_term[i] \in UnsafeChars THEN "_"
                   ELSE search_term[i]]
      stripped == RStrip(LStrip(subbed))
  IN IF Len(stripped) > MaxFolderLen
     THEN SubSeq(stripped, 1, MaxFolderLen)
     ELSE stripped

(***************************************************************************)
(* Configuration (module level of the source)                              *)
(***************************************************************************)
\* One query term; "/" is one of the characters the folder name replaces.
Term1 == <<"s", "/", "2">>

\* SEARCH_TERMS: the batch runs the same term twice, so that the second
\* run meets the directory the first one left.
SEARCH_TERMS == <<Term1, Term1>>

\* ENABLE_RESUME = True
ENABLE_RESUME == TRUE

Pages == 1..MAX_PAGES

(***************************************************************************)
(* Canonical names: the f-string of _wait_for_download and the two         *)
(* regular expressions that read it back                                   *)
(***************************************************************************)
PageTag == <<"_", "p", "a", "g", "e", "_">>

\* new_filename = f"{safe_search_term}_page_{page_num}{file_ext}"
NewFilename(search_term, page, file) ==
  _create_safe_folder_name(search_term) \o PageTag \o Str(page) \o SplitExt(file)

\* s is \w+
IsWord(s) == Len(s) >= 1 /\ \A i \in 1..Len(s) : s[i] \in WordChars

\* The tail of `name` from position i matches  <safe>_page_(\d+)\.\w+$
\* and the digits are `ds` (re.escape makes <safe> a literal).
TailMatches(safe, name, i, ds) ==
  LET pre == safe \o PageTag
      a == i + Len(pre)
      b == a + Len(ds)
  IN /\ Len(ds) >= 1
     /\ \A k \in 1..Len(ds) : ds[k] \in Digits
     /\ b <= Len(name)
     /\ SubSeq(name, i, a - 1) = pre
     /\ SubSeq(name, a, b - 1) = ds
     /\ name[b] = "."
     /\ IsWord(SubSeq(name, b + 1, Len(name)))

\* The digit runs that can follow position i: every run of digits that
\* starts at i + len(<safe>_page_).
DigitRuns(safe, name, i) ==
  LET a == i + Len(safe) + Len(PageTag)
  IN {SubSeq(name, a, e) : e \in a..Len(name)}

\* Positions at which  .*<safe>_page_(\d+)\.\w+$  can leave the `.*`.
MatchStarts(safe, name) ==
  {i \in 1..Len(name) :
     \E ds \in DigitRuns(safe, name, i) : TailMatches(safe, name, i, ds)}

\* pattern.match(filename) of _scan_existing_files is not None
ScanMatches(safe, name) == MatchStarts(safe, name) # {}

\* int(match.group(1)): `.*` is greedy, so the match is the one that
\* starts latest.
ScanPage(safe, name) ==
  LET i == CHOOSE k \in MatchStarts(safe, name) :
             \A j \in MatchStarts(safe, name) : j <= k
      ds == CHOOSE d \in DigitRuns(safe, name, i) : TailMatches(safe, name, i, d)
  IN ToInt(ds)

\* pattern.match(filename) of _find_existing_file:
\* .*<safe>_page_<page_num>\.\w+$  with the page number as literal text.
FindMatches(safe, page, name) ==
  \E i \in 1..Len(name) : TailMatches(safe, name, i, Str(page))

(***************************************************************************)
(* The download watcher's tests on a new file name                         *)
(***************************************************************************)
ExtFasta == <<".", "f", "a", "s", "t", "a">>
ExtFa == <<".", "f", "a">>
ExtTxt == <<".", "t", "x", "t">>

\* ['.fasta', '.fa', '.txt']
ExpectedExts == {ExtFasta, ExtFa, ExtTxt}

SufCrdownload == <<".", "c", "r", "d", "o", "w", "n", "l", "o", "a", "d">>
SufTmp == <<".", "t", "m", "p">>

\* any(ext in file_lower for ext in ['.fasta', '.fa', '.txt'])
HasExpectedExt(file) == \E ext \in ExpectedExts : Contains(Lower(file), ext)

\* not file.endswith('.crdownload') and not file.endswith('.tmp')
NotTemporary(file) == ~EndsWith(file, SufCrdownload) /\ ~EndsWith(file, SufTmp)

\* The two nested tests of the watcher's `for file in new_files` loop.
Accepted(file) == HasExpectedExt(file) /\ NotTemporary(file)

(***************************************************************************)
(* Names the browser gives to what it downloads (environment)              *)
(***************************************************************************)
NameTxt == <<"q", ".", "t", "x", "t">>
NameBackup == <<"q", ".", "t", "x", "t", "~">>

\* The name of a finished download.
FinalNames == {NameTxt, NameBackup}

\* The name of a download in progress.
TmpName == <<"q", ".", "f", "a", "s", "t", "a">> \o SufCrdownload

(***************************************************************************)
(* Locator fallback chains                                                 *)
(*                                                                         *)
(* A chain is the list of ways one method tries to find and use a control. *)
(* What the browser does with one candidate is one of                      *)
(*   "unres"   the locator finds nothing usable (TimeoutException of       *)
(*             wait.until, NoSuchElementException, an empty or unmatched   *)
(*             element list, an element not displayed or not enabled);     *)
(*   "error"   a WebDriver exception other than TimeoutException is raised *)
(*             while locating or acting on the element;                    *)
(*   "ok"      the element is found and the action on it is done;          *)
(*   "waiterr" (Create-File candidates only) the button is clicked and the *)
(*             _wait_for_download call that follows raises.                *)
(* Candidate 0 of the "create" chain is the format control, candidate 1    *)
(* the XPATH button, candidates 2.. the entries of create_selectors.       *)
(***************************************************************************)
Chains == {"sendto", "coding", "jump", "create"}

FirstCand(c) == IF c = "create" THEN 0 ELSE 1

LastCand(c) == IF c = "create" THEN 1 + NumCreateSelectors ELSE 3

Cands(c) == FirstCand(c)..LastCand(c)

Kinds == {"unres", "error", "ok"}

KindsOf(c, k) == IF c = "create" /\ k >= 1 THEN Kinds \cup {"waiterr"} ELSE Kinds

Goto(k) == [t |-> "goto", to |-> k, val |-> "none"]

Ret(v) == [t |-> "ret", to |-> 0, val |-> v]

\* _click_send_to: only TimeoutException of the first wait leads to the
\* fallbacks; the two fallbacks swallow everything.
StepSendTo(k, o) ==
  IF o = "ok" THEN Ret("true")
  ELSE IF k = 1 THEN (IF o = "unres" THEN Goto(2) ELSE Ret("raise"))
  ELSE IF k = 2 THEN Goto(3)
  ELSE Ret("false")

\* _select_coding_sequences: the same shape as _click_send_to.
StepCoding(k, o) ==
  IF o = "ok" THEN Ret("true")
  ELSE IF k = 1 THEN (IF o = "unres" THEN Goto(2) ELSE Ret("raise"))
  ELSE IF k = 2 THEN Goto(3)
  ELSE Ret("false")

\* _jump_to_page: each of the three methods is wrapped in except Exception.
StepJump(k, o) ==
  IF o = "ok" THEN Ret("true")
  ELSE IF k < 3 THEN Goto(k + 1)
  ELSE Ret("false")

\* _configure_and_download: a TimeoutException of the format wait or of the
\* XPATH wait enters the create_selectors loop; any other exception of the
\* first try block returns None; inside the loop the bare except covers the
\* click and the _wait_for_download call alike.
StepCreate(k, o) ==
  IF k = 0 THEN
    (IF o = "ok" THEN Goto(1) ELSE IF o = "unres" THEN Goto(2) ELSE Ret("false"))
  ELSE IF o = "ok" THEN Ret("true")
  ELSE IF k = 1 THEN (IF o = "unres" THEN Goto(2) ELSE Ret("false"))
  ELSE IF k < 1 + NumCreateSelectors THEN Goto(k + 1)
  ELSE Ret("false")

Step(c, k, o) ==
  CASE c = "sendto" -> StepSendTo(k, o)
    [] c = "coding" -> StepCoding(k, o)
    [] c = "jump" -> StepJump(k, o)
    [] c = "create" -> StepCreate(k, o)

\* The whole chain from candidate k under the browser behaviour env:
\* what the method returns and which candidate it returned through.
RECURSIVE RunChain(_, _, _)
RunChain(c, k, env) ==
  LET s == Step(c, k, env[k])
  IN IF s.t = "goto" THEN RunChain(c, s.to, env) ELSE [val |-> s.val, by |-> k]

EnvsOf(c) == [Cands(c) -> Kinds]

\* What a three-candidate method can return, and through which candidate.
ChainResults(c) == {RunChain(c, 1, env) : env \in EnvsOf(c)}

SendToResults == ChainResults("sendto")

CodingResults == ChainResults("coding")

JumpResults == ChainResults("jump")

\* _configure_and_download from candidate k on, up to the click that
\* starts an export: the candidates that can be the one that clicks, and
\* -1 when the method can return None without a click.
RECURSIVE CreateClicks(_)
CreateClicks(k) ==
  UNION {IF k >= 1 /\ o = "ok" THEN {k}
         ELSE LET s == Step("create", k, o)
              IN IF s.t = "goto" THEN CreateClicks(s.to) ELSE {-1} :
         o \in Kinds}

\* CreateClicks for every candidate a chain can start from, computed once.
ClicksFrom == [k \in 0..(1 + NumCreateSelectors) |-> CreateClicks(k)]

(***************************************************************************)
(* State                                                                   *)
(***************************************************************************)
VARIABLES
  termIdx,          \* main(): index of the term of SEARCH_TERMS being processed
  pc,               \* position of the single thread of control
  driver,           \* self.driver: "none", "open" or "quit"
  enable_resume,    \* self.enable_resume
  existing_pages,   \* self.existing_pages
  page_num,         \* page_num of download_fasta_protein
  downloaded_files, \* downloaded_files: the entries appended so far
  dir,              \* the files of self.current_download_dir
  pending,          \* exports the portal is still producing (browser side)
  initial_files,    \* initial_files of _wait_for_download
  createIdx,        \* first Create-File candidate of the chain run that clicked
  shown,            \* result page the main window shows (0: none yet)
  tabs,             \* a window besides the main one is open
  focusMain,        \* the driver's current window is the main one
  selected,         \* result pages whose record checkboxes are selected
  outcome,          \* per page, how its processing ended in this run
  cleaned,          \* the clean-up calls made: page, and whether none raised
  stop,             \* why the while loop of this run was left
  snap,             \* per finished run, the captured pages it left
  faults,           \* swallowed exceptions met so far (see MaxFaults)
  loc_chain,        \* locator chain under test
  loc_env,          \* what the browser does with each candidate
  loc_next,         \* candidate to attempt next
  loc_tried,        \* candidates attempted so far, in order
  loc_res           \* what the method returned ("run" while it has not)

browser == <<shown, tabs, focusMain, selected>>

locvars == <<loc_chain, loc_env, loc_next, loc_tried, loc_res>>

mainvars ==
  <<termIdx, pc, driver, enable_resume, existing_pages, page_num,
    downloaded_files, dir, pending, initial_files, createIdx, shown, tabs,
    focusMain, selected, outcome, cleaned, stop, snap, faults>>

vars ==
  <<termIdx, pc, driver, enable_resume, existing_pages, page_num,
    downloaded_files, dir, pending, initial_files, createIdx, shown, tabs,
    focusMain, selected, outcome, cleaned, stop, snap, faults,
    loc_chain, loc_env, loc_next, loc_tried, loc_res>>

\* A file of the directory: its name, the name it was downloaded under,
\* and the export that produced it (page_num and term index at the click).
File(n, o, p, r) == [name |-> n, orig |-> o, page |-> p, run |-> r]

Names(d) == {f.name : f \in d}

search_term == SEARCH_TERMS[termIdx]

\* _scan_existing_files with the pattern built from the search term as
\* typed instead of the sanitised one.
_scan_existing_files_raw_term(term, d) ==
  {ScanPage(term, n) : n \in {m \in Names(d) : ScanMatches(term, m)}}

\* _scan_existing_files: the page numbers of the names the pattern matches.
_scan_existing_files(term, d) ==
  LET safe == _create_safe_folder_name(term)
  IN {ScanPage(safe, n) : n \in {m \in Names(d) : ScanMatches(safe, m)}}

\* _find_existing_file: the names it can return (the first match of
\* os.listdir, whose order is arbitrary); empty when it returns None.
_find_existing_file(term, page, d) ==
  {n \in Names(d) : FindMatches(_create_safe_folder_name(term), page, n)}

\* The resume test with the enable_resume flag inverted.
IsDoneFlagInverted(page) == ~enable_resume /\ page \in existing_pages

\* `self.enable_resume and page_num in self.existing_pages`
IsDone(page) == enable_resume /\ page \in existing_pages

\* An entry of downloaded_files: the path, and the page_num of the
\* iteration that appended it.
Entry(page, name) == [page |-> page, name |-> name]

\* The captured pages of a directory: page number and file, for the files
\* the resume scan recognises.
CapturedSet(term, d) ==
  LET safe == _create_safe_folder_name(term)
  IN {<<ScanPage(safe, f.name), f>> : f \in {g \in d : ScanMatches(safe, g.name)}}

FreshOutcome == [p \in Pages |-> "none"]

(***************************************************************************)
(* main() and setup_driver                                                 *)
(***************************************************************************)
MainInit(resume) ==
  /\ termIdx = 1
  /\ pc = "main"
  /\ driver = "none"
  /\ enable_resume = resume
  /\ existing_pages = {}
  /\ page_num = 1
  /\ downloaded_files = << >>
  /\ dir = {}
  /\ pending = {}
  /\ initial_files = {}
  /\ createIdx = 0
  /\ shown = 0
  /\ tabs = FALSE
  /\ focusMain = TRUE
  /\ selected = {}
  /\ outcome = FreshOutcome
  /\ cleaned = {}
  /\ stop = "none"
  /\ snap = << >>
  /\ faults = 0

LocIdle ==
  /\ loc_chain = "none"
  /\ loc_env = << >>
  /\ loc_next = 0
  /\ loc_tried = << >>
  /\ loc_res = "idle"

Init == MainInit(ENABLE_RESUME) /\ LocIdle

\* main(): a new NCBIFastaDownloader for the next term, then
\* download_fasta_protein up to the end of setup_driver: the resume scan,
\* then the browser start, which may fail (setup_driver returns False and
\* download_fasta_protein returns None).
StartTerm ==
  /\ pc = "main"
  /\ termIdx <= Len(SEARCH_TERMS)
  /\ existing_pages' = IF enable_resume
                       THEN _scan_existing_files(search_term, dir)
                       ELSE {}
  /\ page_num' = 1
  /\ downloaded_files' = << >>
  /\ outcome' = FreshOutcome
  /\ cleaned' = {}
  /\ initial_files' = {}
  /\ createIdx' = 0
  /\ shown' = 0
  /\ tabs' = FALSE
  /\ focusMain' = TRUE
  /\ selected' = {}
  /\ \E started \in BOOLEAN :
       IF started
       THEN driver' = "open" /\ pc' = "get" /\ stop' = "none"
       ELSE driver' = "none" /\ pc' = "close" /\ stop' = "setup"
  /\ UNCHANGED <<termIdx, enable_resume, dir, pending, snap>>
  /\ UNCHANGED <<faults, locvars>>

\* self.driver.get(search_url) and _get_total_pages (which swallows its
\* exceptions); an exception of get() reaches the outer except.
OpenSearch ==
  /\ pc = "get"
  /\ \E loaded \in BOOLEAN :
       IF loaded
       THEN shown' = 1 /\ pc' = "loop" /\ stop' = stop
       ELSE shown' = shown /\ pc' = "close" /\ stop' = "getfail"
  /\ UNCHANGED <<termIdx, driver, enable_resume, existing_pages, page_num,
                 downloaded_files, dir, pending, initial_files, createIdx,
                 tabs, focusMain, selected, outcome, cleaned, snap>>
  /\ UNCHANGED <<faults, locvars>>

\* A finally block that swallows the exception of quit() and lets the for
\* loop go on.
CloseDriverSwallowed ==
  /\ pc = "close"
  /\ \E quitOk \in BOOLEAN :
       /\ (driver # "open") => quitOk
       /\ driver' = IF driver = "open" /\ quitOk THEN "quit" ELSE driver
       /\ dir' = IF driver = "open" /\ quitOk
                 THEN {f \in dir : f.name # TmpName}
                 ELSE dir
       /\ pending' = IF quitOk THEN {} ELSE pending
       /\ termIdx' = termIdx + 1
       /\ pc' = "main"
  /\ snap' = Append(snap, CapturedSet(search_term, dir'))
  /\ UNCHANGED <<enable_resume, existing_pages, page_num, downloaded_files,
                 initial_files, createIdx, shown, tabs, focusMain, selected,
                 outcome, cleaned, stop>>
  /\ UNCHANGED <<faults, locvars>>

\* The finally block of main(): downloader.close(), then the next term.
\* quit() ends the browser and with it the exports still in progress; an
\* exception of quit() leaves the for loop through the outer except.
CloseDriver ==
  /\ pc = "close"
  /\ \E quitOk \in BOOLEAN :
       /\ (driver # "open") => quitOk
       /\ driver' = IF driver = "open" /\ quitOk THEN "quit" ELSE driver
       /\ dir' = IF driver = "open" /\ quitOk
                 THEN {f \in dir : f.name # TmpName}
                 ELSE dir
       /\ pending' = IF quitOk THEN {} ELSE pending
       /\ IF quitOk
          THEN termIdx' = termIdx + 1 /\ pc' = "main"
          ELSE termIdx' = termIdx /\ pc' = "aborted"
  /\ snap' = Append(snap, CapturedSet(search_term, dir'))
  /\ UNCHANGED <<enable_resume, existing_pages, page_num, downloaded_files,
                 initial_files, createIdx, shown, tabs, focusMain, selected,
                 outcome, cleaned, stop>>
  /\ UNCHANGED <<faults, locvars>>

(***************************************************************************)
(* download_fasta_protein: the while loop                                  *)
(***************************************************************************)
\* The loop without its increment.
NextPageSame(p) == p

\* page_num += 1
NextPage(p) == p + 1

Ended(p, how) == [outcome EXCEPT ![p] = how]

\* `while page_num <= MAX_PAGES` is false: the function returns.
LoopExit ==
  /\ pc = "loop"
  /\ page_num > MAX_PAGES
  /\ pc' = "close"
  /\ stop' = "ceiling"
  /\ UNCHANGED <<termIdx, driver, enable_resume, existing_pages, page_num,
                 downloaded_files, dir, pending, initial_files, createIdx,
                 shown, tabs, focusMain, selected, outcome, cleaned, snap>>
  /\ UNCHANGED <<faults, locvars>>

\* The resume branch: look the file up, append it when found, next page.
SkipPage ==
  /\ pc = "loop"
  /\ page_num <= MAX_PAGES
  /\ IsDone(page_num)
  /\ LET found == _find_existing_file(search_term, page_num, dir)
     IN IF found = {}
        THEN downloaded_files' = downloaded_files
        ELSE \E n \in found :
               downloaded_files' = Append(downloaded_files, Entry(page_num, n))
  /\ page_num' = NextPage(page_num)
  /\ outcome' = Ended(page_num, "skipped")
  /\ UNCHANGED <<termIdx, pc, driver, enable_resume, existing_pages, dir,
                 pending, initial_files, createIdx, shown, tabs, focusMain,
                 selected, cleaned, stop, snap>>
  /\ UNCHANGED <<faults, locvars>>

\* Page 1 needs no jump: the search page already shows it.
FirstPage ==
  /\ pc = "loop"
  /\ page_num <= MAX_PAGES
  /\ ~IsDone(page_num)
  /\ page_num = 1
  /\ pc' = "select"
  /\ UNCHANGED <<termIdx, driver, enable_resume, existing_pages, page_num,
                 downloaded_files, dir, pending, initial_files, createIdx,
                 shown, tabs, focusMain, selected, outcome, cleaned, stop, snap>>
  /\ UNCHANGED <<faults, locvars>>

\* The page the main window shows after _jump_to_page returned True through
\* method `by`: the page-number input and the next button carrying the
\* target page lead to the target, the fixed XPATH link to the next page.
JumpLands(by, target, cur) == IF by = 3 THEN cur + 1 ELSE target

\* `if page_num > 1: if not self._jump_to_page(page_num): break`
JumpToPage ==
  /\ pc = "loop"
  /\ page_num <= MAX_PAGES
  /\ ~IsDone(page_num)
  /\ page_num > 1
  /\ \E r \in JumpResults :
       /\ (~focusMain) => r.val = "false"
       /\ IF r.val = "true"
          THEN /\ shown' = JumpLands(r.by, page_num, shown)
               /\ pc' = "select"
               /\ UNCHANGED <<outcome, stop>>
          ELSE /\ shown' = shown
               /\ pc' = "close"
               /\ stop' = "jumpfail"
               /\ outcome' = Ended(page_num, "jumpfail")
  /\ UNCHANGED <<termIdx, driver, enable_resume, existing_pages, page_num,
                 downloaded_files, dir, pending, initial_files, createIdx,
                 tabs, focusMain, selected, cleaned, snap>>
  /\ UNCHANGED <<faults, locvars>>

\* The selection step without the `if checkbox_count == 0: break`.
SelectAllCheckboxesNoBreak ==
  /\ pc = "select"
  /\ \E res \in {"some", "zero", "raise"} :
       /\ (res = "some") => (focusMain /\ shown \notin selected)
       /\ CASE res = "some" ->
                 /\ selected' = selected \cup {shown}
                 /\ pc' = "sendto"
                 /\ UNCHANGED <<outcome, stop>>
            [] res = "zero" ->
                 /\ selected' = selected
                 /\ pc' = "sendto"
                 /\ stop' = stop
                 /\ outcome' = Ended(page_num, "noresults")
            [] res = "raise" ->
                 /\ selected' = selected
                 /\ pc' = "close"
                 /\ stop' = "exception"
                 /\ outcome' = Ended(page_num, "exception")
  /\ UNCHANGED <<termIdx, driver, enable_resume, existing_pages, page_num,
                 downloaded_files, dir, pending, initial_files, createIdx,
                 shown, tabs, focusMain, cleaned, snap>>
  /\ UNCHANGED <<faults, locvars>>

\* `main_window = self.driver.current_window_handle` (which may raise) and
\* _select_all_checkboxes, which returns the number of boxes it clicked:
\* none when there is no box, when every box is already selected, when
\* every click raises or when find_elements raises.
SelectAllCheckboxes ==
  /\ pc = "select"
  /\ \E res \in {"some", "zero", "raise"} :
       /\ (res = "some") => (focusMain /\ shown \notin selected)
       /\ CASE res = "some" ->
                 /\ selected' = selected \cup {shown}
                 /\ pc' = "sendto"
                 /\ UNCHANGED <<outcome, stop>>
            [] res = "zero" ->
                 /\ selected' = selected
                 /\ pc' = "close"
                 /\ stop' = "noresults"
                 /\ outcome' = Ended(page_num, "noresults")
            [] res = "raise" ->
                 /\ selected' = selected
                 /\ pc' = "close"
                 /\ stop' = "exception"
                 /\ outcome' = Ended(page_num, "exception")
  /\ UNCHANGED <<termIdx, driver, enable_resume, existing_pages, page_num,
                 downloaded_files, dir, pending, initial_files, createIdx,
                 shown, tabs, focusMain, cleaned, snap>>
  /\ UNCHANGED <<faults, locvars>>

\* `if not self._click_send_to(): break`; an exception that leaves
\* _click_send_to reaches the outer except of download_fasta_protein.
ClickSendTo ==
  /\ pc = "sendto"
  /\ \E r \in SendToResults :
       CASE r.val = "true" ->
              /\ pc' = "coding"
              /\ UNCHANGED <<outcome, stop>>
         [] r.val = "false" ->
              /\ pc' = "close"
              /\ stop' = "stepfail"
              /\ outcome' = Ended(page_num, "stepfail")
         [] r.val = "raise" ->
              /\ pc' = "close"
              /\ stop' = "exception"
              /\ outcome' = Ended(page_num, "exception")
  /\ UNCHANGED <<termIdx, driver, enable_resume, existing_pages, page_num,
                 downloaded_files, dir, pending, initial_files, createIdx,
                 shown, tabs, focusMain, selected, cleaned, snap>>
  /\ UNCHANGED <<faults, locvars>>

\* `if not self._select_coding_sequences(): break`; the click opens the
\* export page ("新页面") in a window of its own.
SelectCodingSequences ==
  /\ pc = "coding"
  /\ \E r \in CodingResults :
       CASE r.val = "true" ->
              /\ pc' = "config"
              /\ tabs' = TRUE
              /\ UNCHANGED <<outcome, stop>>
         [] r.val = "false" ->
              /\ pc' = "close"
              /\ tabs' = tabs
              /\ stop' = "stepfail"
              /\ outcome' = Ended(page_num, "stepfail")
         [] r.val = "raise" ->
              /\ pc' = "close"
              /\ tabs' = tabs
              /\ stop' = "exception"
              /\ outcome' = Ended(page_num, "exception")
  /\ createIdx' = 0
  /\ UNCHANGED <<termIdx, driver, enable_resume, existing_pages, page_num,
                 downloaded_files, dir, pending, initial_files, shown,
                 focusMain, selected, cleaned, snap>>
  /\ UNCHANGED <<faults, locvars>>

(***************************************************************************)
(* _configure_and_download and _wait_for_download                          *)
(***************************************************************************)
\* None, as the value of downloaded_file
NoFile == << >>

\* `if downloaded_file: downloaded_files.append(downloaded_file)`
RecordedFiles(files, page, file) ==
  IF file # NoFile THEN Append(files, Entry(page, file)) ELSE files

\* existing_pages.add(page_num) moved out of `if downloaded_file:`.
RecordedPagesAlways(pages, page, file) ==
  IF enable_resume THEN pages \cup {page} ELSE pages

\* `if downloaded_file: if self.enable_resume: self.existing_pages.add(page_num)`
RecordedPages(pages, page, file) ==
  IF file # NoFile /\ enable_resume THEN pages \cup {page} ELSE pages

\* A loop that breaks when _configure_and_download returns None.
NextAfterDownloadBreak(file) == IF file = NoFile THEN "close" ELSE "cleanup"

\* Where the loop goes once _configure_and_download has returned: to the
\* clean-up calls, whatever was returned (the else branch only prints).
NextAfterDownload(file) == "cleanup"

\* _configure_and_download returns `file` to the loop, which records it and
\* goes on to the clean-up calls.
PageReturns(file, how) ==
  /\ downloaded_files' = RecordedFiles(downloaded_files, page_num, file)
  /\ existing_pages' = RecordedPages(existing_pages, page_num, file)
  /\ outcome' = Ended(page_num, how)
  /\ initial_files' = {}
  /\ createIdx' = 0
  /\ pc' = NextAfterDownload(file)

Export(page, run) == [page |-> page, run |-> run]

\* _configure_and_download from candidate `from` on: either a Create-File
\* button is clicked, which starts an export, or None is returned.  Which
\* candidate clicked has no effect before the watcher raises, so createIdx
\* keeps where the chain started and WatchError picks the candidate.
CreateFrom(from) ==
  \E clicks \in BOOLEAN :
    IF clicks
    THEN /\ ClicksFrom[from] # {-1}
         /\ createIdx' = from
         /\ pending' = pending \cup {Export(page_num, termIdx)}
         /\ initial_files' = {}
         /\ pc' = "clicked"
         /\ UNCHANGED <<downloaded_files, existing_pages, outcome>>
    ELSE /\ -1 \in ClicksFrom[from]
         /\ PageReturns(NoFile, "failed")
         /\ UNCHANGED pending

ConfigureAndDownload ==
  /\ pc = "config"
  /\ CreateFrom(0)
  /\ UNCHANGED <<termIdx, driver, enable_resume, page_num, dir,
                 shown, tabs, focusMain, selected, cleaned, stop, snap>>
  /\ UNCHANGED <<faults, locvars>>

\* initial_files = set(os.listdir(self.current_download_dir))
WatchStart ==
  /\ pc = "clicked"
  /\ initial_files' = Names(dir)
  /\ pc' = "wait"
  /\ UNCHANGED <<termIdx, driver, enable_resume, existing_pages, page_num,
                 downloaded_files, dir, pending, createIdx, shown, tabs,
                 focusMain, selected, outcome, cleaned, stop, snap>>
  /\ UNCHANGED <<faults, locvars>>

\* The files a poll of the watcher can pick: new since the baseline and
\* passing both name tests (the loop over the set takes the first such).
Candidates(d, baseline) ==
  {f \in d : f.name \notin baseline /\ Accepted(f.name)}

\* A removal that empties the directory instead of removing the one file.
RemovedEverything(d, newname) == {}

\* os.remove(new_file_path) when it exists
Removed(d, newname) == {g \in d : g.name # newname}

\* os.remove when the target exists, then os.rename(file_path, new_file_path)
Renamed(d, f, newname) ==
  (Removed(d, newname) \ {f}) \cup {[f EXCEPT !.name = newname]}

\* A poll finds a candidate, renames it and returns its new path.
WatchRename ==
  /\ pc = "wait"
  /\ \E f \in Candidates(dir, initial_files) :
       LET newname == NewFilename(search_term, page_num, f.name)
       IN /\ dir' = Renamed(dir, f, newname)
          /\ PageReturns(newname, "captured")
  /\ UNCHANGED <<termIdx, driver, enable_resume, page_num, pending,
                 shown, tabs, focusMain, selected, cleaned, stop, snap>>
  /\ UNCHANGED <<faults, locvars>>

\* A poll finds a candidate and os.remove or os.rename raises OSError (the
\* file is still held open, the target cannot be replaced).  After the XPATH
\* click the except Exception returns None; inside the create_selectors loop
\* the bare except goes on to the next selector.
WatchError ==
  /\ pc = "wait"
  /\ faults < MaxFaults
  /\ faults' = faults + 1
  /\ \E f \in Candidates(dir, initial_files), removed \in BOOLEAN :
       LET newname == NewFilename(search_term, page_num, f.name)
       IN dir' = IF removed THEN Removed(dir, newname) ELSE dir
  /\ \E c \in ClicksFrom[createIdx] \ {-1} :
       LET s == Step("create", c, "waiterr")
       IN IF s.t = "goto"
          THEN CreateFrom(s.to)
          ELSE /\ PageReturns(NoFile, "failed")
               /\ UNCHANGED pending
  /\ UNCHANGED <<termIdx, driver, enable_resume, page_num,
                 shown, tabs, focusMain, selected, cleaned, stop, snap>>
  /\ UNCHANGED locvars

\* A watcher whose while loop has no time limit: it never returns None.
WatchWithoutTimeout ==
  /\ pc = "wait"
  /\ FALSE
  /\ UNCHANGED vars

\* `while time.time() - start_time < timeout` is false: return None.  The
\* loop sleeps two seconds between polls, so the time can run out with a
\* file in the directory that no poll has seen.
WatchTimeout ==
  /\ pc = "wait"
  /\ PageReturns(NoFile, "timeout")
  /\ UNCHANGED <<termIdx, driver, enable_resume, page_num, dir, pending,
                 shown, tabs, focusMain, selected,
                 cleaned, stop, snap>>
  /\ UNCHANGED <<faults, locvars>>

(***************************************************************************)
(* Clean-up at the end of an iteration                                     *)
(***************************************************************************)
\* _close_new_tabs_and_return_to_main: closes the other windows and
\* switches back; an exception on the way is swallowed and leaves the
\* driver on the window it had switched to.
ClosedTabs(ok) ==
  IF ok THEN [tabs |-> FALSE, focusMain |-> TRUE]
  ELSE [tabs |-> tabs, focusMain |-> IF tabs THEN FALSE ELSE focusMain]

\* _deselect_all_checkboxes that clicks nothing.
DeselectedNothing(ok, focus) == selected

\* _deselect_all_checkboxes: clicks every selected box of the current
\* window; exceptions are swallowed and leave the boxes selected.
Deselected(ok, focus) ==
  IF ok /\ focus THEN selected \ {shown} ELSE selected

CleanedUp(page, ok) == [page |-> page, ok |-> ok]

\* Lines 231-238: both clean-up calls, then page_num += 1.
Cleanup ==
  /\ pc = "cleanup"
  /\ \E closeOk \in BOOLEAN, deselOk \in BOOLEAN :
       LET w == ClosedTabs(closeOk)
           n == (IF closeOk THEN 0 ELSE 1) + (IF deselOk THEN 0 ELSE 1)
       IN /\ faults + n <= MaxFaults
          /\ faults' = faults + n
          /\ tabs' = w.tabs
          /\ focusMain' = w.focusMain
          /\ selected' = Deselected(deselOk, w.focusMain)
          /\ cleaned' = cleaned \cup {CleanedUp(page_num, closeOk /\ deselOk)}
  /\ page_num' = NextPage(page_num)
  /\ pc' = "loop"
  /\ UNCHANGED <<termIdx, driver, enable_resume, existing_pages,
                 downloaded_files, dir, pending, initial_files, createIdx,
                 shown, outcome, stop, snap>>
  /\ UNCHANGED locvars

(***************************************************************************)
(* The browser's downloads (environment)                                   *)
(*                                                                         *)
(* The program reads the directory's uncaptured files only in the watcher  *)
(* (its baseline and its polls), so a file that arrives at any other       *)
(* moment is seen exactly as one that arrives just before the next         *)
(* baseline: arrivals are placed between a click and the end of the wait   *)
(* that follows it.                                                        *)
(***************************************************************************)
Watching == pc \in {"clicked", "wait"}

TempOf(e) == File(TmpName, TmpName, e.page, e.run)

\* The browser starts writing the file of an export under a temporary name.
DownloadPartial ==
  /\ driver = "open"
  /\ Watching
  /\ \E e \in pending :
       /\ TmpName \notin Names(dir)
       /\ dir' = dir \cup {TempOf(e)}
  /\ UNCHANGED <<termIdx, pc, driver, enable_resume, existing_pages, page_num,
                 downloaded_files, pending, initial_files, createIdx, shown,
                 tabs, focusMain, selected, outcome, cleaned, stop, snap>>
  /\ UNCHANGED <<faults, locvars>>

\* The browser finishes the file of an export: it appears under its final
\* name (one the directory does not hold yet).
DownloadComplete ==
  /\ driver = "open"
  /\ Watching
  /\ \E e \in pending, n \in FinalNames :
       /\ n \notin Names(dir)
       /\ dir' = (dir \ {TempOf(e)}) \cup {File(n, n, e.page, e.run)}
       /\ pending' = pending \ {e}
  /\ UNCHANGED <<termIdx, pc, driver, enable_resume, existing_pages, page_num,
                 downloaded_files, initial_files, createIdx, shown, tabs,
                 focusMain, selected, outcome, cleaned, stop, snap>>
  /\ UNCHANGED <<faults, locvars>>

\* Every step but the resume branch.
Steps ==
  \/ StartTerm
  \/ OpenSearch
  \/ LoopExit
  \/ FirstPage
  \/ JumpToPage
  \/ SelectAllCheckboxes
  \/ ClickSendTo
  \/ SelectCodingSequences
  \/ ConfigureAndDownload
  \/ WatchStart
  \/ WatchRename
  \/ WatchError
  \/ WatchTimeout
  \/ Cleanup
  \/ CloseDriver
  \/ DownloadPartial
  \/ DownloadComplete

Next == SkipPage \/ Steps

Spec == Init /\ [][Next]_vars

\* The same program constructed with enable_resume=False.
InitNoResume == MainInit(FALSE) /\ LocIdle

SpecNoResume == InitNoResume /\ [][Steps]_vars

(***************************************************************************)
(* One locator chain on its own, candidate by candidate                    *)
(***************************************************************************)
\* What the browser may do with each candidate of chain c.
LocEnvs(c) ==
  {e \in [Cands(c) -> Kinds \cup {"waiterr"}] :
     \A k \in Cands(c) : e[k] \in KindsOf(c, k)}

LocInit ==
  /\ MainInit(ENABLE_RESUME)
  /\ loc_chain \in Chains
  /\ loc_env \in LocEnvs(loc_chain)
  /\ loc_next = FirstCand(loc_chain)
  /\ loc_tried = << >>
  /\ loc_res = "run"

\* The method attempts its next candidate and either returns or falls
\* through to the candidate Step names.
LocAttempt ==
  /\ loc_res = "run"
  /\ LET s == Step(loc_chain, loc_next, loc_env[loc_next])
     IN /\ loc_tried' = Append(loc_tried, loc_next)
        /\ IF s.t = "goto"
           THEN loc_next' = s.to /\ loc_res' = "run"
           ELSE loc_next' = loc_next /\ loc_res' = s.val
  /\ UNCHANGED <<loc_chain, loc_env>>
  /\ UNCHANGED mainvars

NextLocator == LocAttempt

SpecLocator == LocInit /\ [][NextLocator]_vars

(***************************************************************************)
(* The watcher on its own: _wait_for_download polling a directory that an  *)
(* earlier run with resume disabled left, for every kind of name the       *)
(* browser can deliver                                                     *)
(***************************************************************************)
NameFasta == <<"q">> \o ExtFasta

NameFa == <<"q">> \o ExtFa

\* The names a new file of the download directory can have.
WatchNames == {NameTxt, NameBackup, NameFasta, NameFa, TmpName}

\* What the directory can hold for page p when the watcher starts: nothing,
\* or the file an earlier run (run 0) captured for p as .txt or as .fasta.
EarlierCapture(p, n) == File(NewFilename(Term1, p, n), n, p, 0)

EarlierDirs ==
  {UNION {{EarlierCapture(p, n) : n \in choice[p]} : p \in Pages} :
     choice \in [Pages -> {{}, {NameTxt}, {NameFasta}}]}

\* Page page_num was opened with resume disabled, the pages before it timed
\* out, Create File was clicked, the baseline was taken and one new file has
\* appeared since.
WatchInit ==
  /\ termIdx = 1
  /\ pc = "wait"
  /\ driver = "open"
  /\ enable_resume = FALSE
  /\ existing_pages = {}
  /\ page_num \in Pages
  /\ downloaded_files = << >>
  /\ \E old \in EarlierDirs, n \in WatchNames :
       /\ dir = old \cup {File(n, n, page_num, 1)}
       /\ initial_files = Names(old)
  /\ pending = {}
  /\ createIdx = 0
  /\ shown = page_num
  /\ tabs = TRUE
  /\ focusMain = TRUE
  /\ selected = {page_num}
  /\ outcome = [p \in Pages |-> IF p < page_num THEN "timeout" ELSE "none"]
  /\ cleaned = {CleanedUp(p, TRUE) : p \in {q \in Pages : q < page_num}}
  /\ stop = "none"
  /\ snap = << >>
  /\ faults = 0
  /\ LocIdle

NextWatch == WatchRename \/ WatchTimeout

SpecWatch == WatchInit /\ [][NextWatch]_vars

(***************************************************************************)
(* The resume scan on its own: setup_driver scanning a directory that      *)
(* holds captures of earlier runs and files put there from outside         *)
(***************************************************************************)
\* <safe>_page_<page><ext>
PageName(page, ext) == _create_safe_folder_name(Term1) \o PageTag \o Str(page) \o ext

\* Names a download directory can hold before a run starts.
ScanNames ==
  {PageName(1, ExtTxt),
   PageName(MAX_PAGES, ExtFasta),
   <<"x">> \o PageName(MAX_PAGES, ExtTxt),
   PageName(1, ExtTxt \o <<"~">>),
   PageName(1, << >>),
   _create_safe_folder_name(Term1) \o PageTag \o ExtTxt,
   NameTxt}

ScanDirs == {{File(n, n, 0, 0) : n \in ns} : ns \in SUBSET ScanNames}

\* main() is about to construct the downloader of the first term, over a
\* directory that already holds files.
ScanInit ==
  /\ termIdx = 1
  /\ pc = "main"
  /\ driver = "none"
  /\ enable_resume = ENABLE_RESUME
  /\ existing_pages = {}
  /\ page_num = 1
  /\ downloaded_files = << >>
  /\ dir \in ScanDirs
  /\ pending = {}
  /\ initial_files = {}
  /\ createIdx = 0
  /\ shown = 0
  /\ tabs = FALSE
  /\ focusMain = TRUE
  /\ selected = {}
  /\ outcome = FreshOutcome
  /\ cleaned = {}
  /\ stop = "none"
  /\ snap = << >>
  /\ faults = 0
  /\ LocIdle

NextScan == StartTerm

SpecScan == ScanInit /\ [][NextScan]_vars

(***************************************************************************)
(* _jump_to_page on its own: one call for a target page, from any result   *)
(* page the main window can show when the loop reaches the call.  The      *)
(* ceiling of Spec does not limit the targets examined here.               *)
(***************************************************************************)
\* The loop is at `if page_num > 1:` for page_num; the main window shows
\* the page processed last, or page 1 when resume skipped every page so
\* far.  The next button carries the number of the page after the one
\* shown, so method 2 can find its button only when that is the target.
JumpInit ==
  /\ termIdx = 1
  /\ pc = "loop"
  /\ driver = "open"
  /\ enable_resume = ENABLE_RESUME
  /\ existing_pages = {}
  /\ page_num \in 2..MaxTarget
  /\ shown \in 1..(page_num - 1)
  /\ downloaded_files = << >>
  /\ dir = {}
  /\ pending = {}
  /\ initial_files = {}
  /\ createIdx = 0
  /\ tabs = FALSE
  /\ focusMain = TRUE
  /\ selected = {}
  /\ outcome = FreshOutcome
  /\ cleaned = {}
  /\ stop = "none"
  /\ snap = << >>
  /\ faults = 0
  /\ loc_chain = "jump"
  /\ loc_env \in LocEnvs("jump")
  /\ (loc_env[2] = "ok") => (page_num = shown + 1)
  /\ loc_next = FirstCand("jump")
  /\ loc_tried = << >>
  /\ loc_res = "run"

\* `if not self._jump_to_page(page_num): break`, once the method returned.
JumpReturns ==
  /\ pc = "loop"
  /\ loc_chain = "jump"
  /\ loc_res \in {"true", "false"}
  /\ IF loc_res = "true"
     THEN /\ shown' = JumpLands(loc_tried[Len(loc_tried)], page_num, shown)
          /\ pc' = "select"
          /\ stop' = stop
     ELSE /\ shown' = shown
          /\ pc' = "close"
          /\ stop' = "jumpfail"
  /\ UNCHANGED <<termIdx, driver, enable_resume, existing_pages, page_num,
                 downloaded_files, dir, pending, initial_files, createIdx,
                 tabs, focusMain, selected, outcome, cleaned, snap>>
  /\ UNCHANGED <<faults, locvars>>

NextJump == LocAttempt \/ JumpReturns

SpecJump == JumpInit /\ [][NextJump]_vars

(***************************************************************************)
(* _select_all_checkboxes on its own: one call on a result page whose      *)
(* record checkboxes behave in every way the browser allows                *)
(***************************************************************************)
\* A checkbox of the page: is_selected() is already True, or the click
\* through execute_script succeeds, or it raises (the inner except).
BoxKinds == {"selected", "ok", "error"}

\* The checkbox lists of a page, up to MaxBoxes records.
BoxLists == UNION {[1..n -> BoxKinds] : n \in 0..MaxBoxes}

\* selected_count after the for loop: one for every click that succeeded.
SelectedCount(boxes) == Cardinality({i \in 1..Len(boxes) : boxes[i] = "ok"})

\* The value _select_all_checkboxes returns: 0 when find_elements raises
\* (outer except) or finds nothing, else selected_count.
_select_all_checkboxes(find, boxes) ==
  IF find # "ok" THEN 0
  ELSE IF boxes = << >> THEN 0
  ELSE SelectedCount(boxes)

\* The loop has reached `checkbox_count = self._select_all_checkboxes()`
\* for page_num, the pages before it having timed out; loc_env holds what
\* find_elements does and the checkboxes of the page shown.
SelectInit ==
  /\ termIdx = 1
  /\ pc = "select"
  /\ driver = "open"
  /\ enable_resume = ENABLE_RESUME
  /\ existing_pages = {}
  /\ page_num \in Pages
  /\ shown = page_num
  /\ downloaded_files = << >>
  /\ dir = {}
  /\ pending = {}
  /\ initial_files = {}
  /\ createIdx = 0
  /\ tabs = FALSE
  /\ focusMain = TRUE
  /\ outcome = [p \in Pages |-> IF p < page_num THEN "timeout" ELSE "none"]
  /\ cleaned = {CleanedUp(p, TRUE) : p \in {q \in Pages : q < page_num}}
  /\ stop = "none"
  /\ snap = << >>
  /\ faults = 0
  /\ loc_chain = "select"
  /\ loc_env \in [find : {"ok", "error"}, boxes : BoxLists]
  /\ selected = IF \E i \in 1..Len(loc_env.boxes) : loc_env.boxes[i] = "selected"
                THEN {shown} ELSE {}
  /\ loc_next = 0
  /\ loc_tried = << >>
  /\ loc_res = "run"

\* Lines 202-205: the call, and `if checkbox_count == 0: break`.
SelectReturns ==
  /\ pc = "select"
  /\ loc_chain = "select"
  /\ LET checkbox_count == _select_all_checkboxes(loc_env.find, loc_env.boxes)
     IN IF checkbox_count = 0
        THEN /\ pc' = "close"
             /\ stop' = "noresults"
             /\ outcome' = Ended(page_num, "noresults")
             /\ selected' = selected
             /\ loc_res' = "zero"
        ELSE /\ pc' = "sendto"
             /\ selected' = selected \cup {shown}
             /\ UNCHANGED <<outcome, stop>>
             /\ loc_res' = "some"
  /\ UNCHANGED <<termIdx, driver, enable_resume, existing_pages, page_num,
                 downloaded_files, dir, pending, initial_files, createIdx,
                 shown, tabs, focusMain, cleaned, snap, faults>>
  /\ UNCHANGED <<loc_chain, loc_env, loc_next, loc_tried>>

NextSelect == SelectReturns

SpecSelect == SelectInit /\ [][NextSelect]_vars

(***************************************************************************)
(* One term's collection under fair scheduling: the program is a single    *)
(* thread, every browser call and every wait it makes returns, so the step *)
(* the thread is at is eventually taken.  The browser's downloads are      *)
(* under no such obligation.                                               *)
(***************************************************************************)
\* The steps of the program's thread from the construction of a term's
\* downloader to the return of download_fasta_protein.
ProgramStep ==
  \/ StartTerm
  \/ OpenSearch
  \/ LoopExit
  \/ SkipPage
  \/ FirstPage
  \/ JumpToPage
  \/ SelectAllCheckboxes
  \/ ClickSendTo
  \/ SelectCodingSequences
  \/ ConfigureAndDownload
  \/ WatchStart
  \/ WatchTimeout
  \/ WatchRename
  \/ WatchError
  \/ Cleanup

\* The directories an earlier batch can have left: for each page, nothing
\* or its capture as .txt.
ResumeDirs ==
  {{EarlierCapture(p, NameTxt) : p \in ps} : ps \in SUBSET Pages}

\* main() is about to construct the downloader of the last term of
\* SEARCH_TERMS; the browser of the term before it could not be started.
LiveInit ==
  /\ termIdx = Len(SEARCH_TERMS)
  /\ pc = "main"
  /\ driver = "none"
  /\ enable_resume = ENABLE_RESUME
  /\ existing_pages = {}
  /\ page_num = 1
  /\ downloaded_files = << >>
  /\ dir \in ResumeDirs
  /\ pending = {}
  /\ initial_files = {}
  /\ createIdx = 0
  /\ shown = 0
  /\ tabs = FALSE
  /\ focusMain = TRUE
  /\ selected = {}
  /\ outcome = FreshOutcome
  /\ cleaned = {}
  /\ stop = "setup"
  /\ snap = <<CapturedSet(Term1, dir)>>
  /\ faults = 0
  /\ LocIdle

SpecLive == LiveInit /\ [][Next]_vars /\ WF_vars(ProgramStep)

(***************************************************************************)
(* _create_safe_folder_name on its own: setup_driver derives the folder    *)
(* name of a term of any content and length.                               *)
(***************************************************************************)
\* The characters varied at the ends of a term: a letter, the two characters
\* strip('. ') removes, and one the substitution replaces.
EdgeChars == {"a", ".", " ", "/"}

Edges == UNION {[1..n -> EdgeChars] : n \in 0..MaxEdge}

\* n letters
Pad(n) == [i \in 1..n |-> "a"]

\* Lengths of the middle of a term: none, and enough to bring the term to
\* the length limit of the folder name and past it.
PadLens == {0, MaxFolderLen - 1, MaxFolderLen}

\* The query terms SEARCH_TERMS can hold.
FolderTerms == {h \o Pad(n) \o t : h \in Edges, t \in Edges, n \in PadLens}

\* setup_driver is about to derive the folder name of the term in loc_env.
FolderInit ==
  /\ termIdx = 1
  /\ pc = "main"
  /\ driver = "none"
  /\ enable_resume = ENABLE_RESUME
  /\ existing_pages = {}
  /\ page_num = 1
  /\ downloaded_files = << >>
  /\ dir = {}
  /\ pending = {}
  /\ initial_files = {}
  /\ createIdx = 0
  /\ shown = 0
  /\ tabs = FALSE
  /\ focusMain = TRUE
  /\ selected = {}
  /\ outcome = [p \in Pages |-> "none"]
  /\ cleaned = {}
  /\ stop = "none"
  /\ snap = << >>
  /\ faults = 0
  /\ loc_chain = "folder"
  /\ loc_env \in FolderTerms
  /\ loc_next = 0
  /\ loc_tried = << >>
  /\ loc_res = "run"

\* safe_folder_name = self._create_safe_folder_name(search_term)
FolderNamed ==
  /\ loc_chain = "folder"
  /\ pc = "main"
  /\ pc' = "named"
  /\ loc_res' = _create_safe_folder_name(loc_env)
  /\ UNCHANGED <<termIdx, driver, enable_resume, existing_pages, page_num,
                 downloaded_files, dir, pending, initial_files, createIdx,
                 shown, tabs, focusMain, selected, outcome, cleaned, stop,
                 snap, faults>>
  /\ UNCHANGED <<loc_chain, loc_env, loc_next, loc_tried>>

NextFolder == FolderNamed

SpecFolder == FolderInit /\ [][NextFolder]_vars


(***************************************************************************)
(* Properties                                                              *)
(***************************************************************************)
Safe1 == _create_safe_folder_name(Term1)

\* File f is a download that the watcher renamed for page p.
RenamedFor(f, p) == f.name # f.orig /\ f.name = NewFilename(Term1, p, f.orig)

\* The pages of a captured set.
PagesOf(cs) == {c[1] : c \in cs}

\* The page numbers of the entries of downloaded_files.
ResultPages == {downloaded_files[i].page : i \in 1..Len(downloaded_files)}

\* download_fasta_protein has returned (the browser may still be open).
Returned == pc \in {"close", "main", "aborted"} /\ stop # "none"

\* C1 as stated: after the second run of the same term with resume enabled
\* the set of captured pages (page number and file) is the one the first
\* run left.
C1_SecondRunSameSet == (Len(snap) = 2) => (snap[2] = snap[1])

\* C1 amended: every page the first run left captured stays captured by the
\* same file during and after the second run (the file is still in the
\* directory, same name and same content, so a scan still reports its
\* page), which may only add pages the first run did not capture; when the
\* first run captured every page up to the ceiling the second run leaves
\* the set as it was.
C1_SecondRunKeepsCaptured ==
  (Len(snap) >= 1) =>
    /\ \A c \in snap[1] : c[2] \in dir
    /\ (Len(snap) = 2 /\ PagesOf(snap[1]) = Pages) => (snap[2] = snap[1])

\* A second run that skipped a captured page and captured a missing one.
C1_Witness ==
  /\ Len(snap) = 2
  /\ \E p \in PagesOf(snap[1]) : outcome[p] = "skipped"
  /\ \E q \in PagesOf(snap[2]) \ PagesOf(snap[1]) : outcome[q] = "captured"

\* C2: an iteration that starts with its page number in the resume set
\* touches nothing of the browser (no jump, no selection, no export, no
\* watcher): it appends the existing file and moves to the next page number.
C2_SkipTouchesNoBrowser ==
  [][(pc = "loop" /\ page_num <= MAX_PAGES /\ enable_resume
        /\ page_num \in existing_pages)
       => /\ UNCHANGED <<shown, tabs, focusMain, selected, driver>>
          /\ UNCHANGED <<pending, dir, initial_files, createIdx>>
          /\ pc' = "loop"
          /\ page_num' = page_num + 1
          /\ \E n \in _find_existing_file(Term1, page_num, dir) :
               downloaded_files' = Append(downloaded_files, Entry(page_num, n))]_vars

\* A page was skipped after another one went through the browser.
C2_Witness ==
  /\ pc = "loop"
  /\ \E p \in Pages : outcome[p] = "skipped" /\ page_num = p + 1
  /\ \E e \in ResultPages : outcome[e] = "skipped"

\* The name starts with <namespace>_page_<page>.
HasPageTag(name, page) ==
  LET pre == Safe1 \o PageTag \o Str(page)
  IN Len(name) >= Len(pre) /\ SubSeq(name, 1, Len(pre)) = pre

\* C3: the page numbers of the returned list are strictly increasing (so
\* none appears twice), and every entry is a file named for its page.
C3_PagesStrictlyIncreasing ==
  /\ \A i, j \in 1..Len(downloaded_files) :
       (i < j) => (downloaded_files[i].page < downloaded_files[j].page)
  /\ \A i \in 1..Len(downloaded_files) :
       HasPageTag(downloaded_files[i].name, downloaded_files[i].page)

\* A returned list that mixes a resumed page and a newly captured one.
C3_Witness ==
  /\ Returned
  /\ \E i, j \in 1..Len(downloaded_files) :
       /\ outcome[downloaded_files[i].page] = "skipped"
       /\ outcome[downloaded_files[j].page] = "captured"

NotCaptured == {"stepfail", "exception", "timeout", "failed"}

SelectionStarted(p) ==
  outcome[p] \in {"noresults", "stepfail", "captured", "timeout", "failed"}

\* Control has left the processing of page p.
LeftPage(p) == page_num > p \/ Returned

C6_FileBelongsToItsPage ==
  \A f \in dir : \A p \in Pages : RenamedFor(f, p) => (f.page = p)

\* C7 as stated: a file the watcher renamed had one of the expected
\* extensions and was not a temporary download file.
C7_OnlyExpectedExtensions ==
  \A f \in dir :
    (f.name # f.orig) =>
      (Lower(SplitExt(f.orig)) \in ExpectedExts /\ NotTemporary(f.orig))

\* C8 as stated: a page whose download the watcher renamed is reported done
\* by a scan of the directory.
C8_RenamedPageIsScanned ==
  \A f \in dir : \A p \in Pages :
    RenamedFor(f, p) => (p \in _scan_existing_files(Term1, dir))

\* C9: a watcher that meets no matching new file returns None by timeout and
\* leaves the directory as it is; a page that timed out is neither in the
\* results nor in the resume set, and the loop goes on to the next page.
C9_TimeoutContained ==
  /\ [](\A p \in Pages :
          (outcome[p] = "timeout") =>
            /\ p \notin ResultPages
            /\ p \notin existing_pages
            /\ (pc = "cleanup" /\ page_num = p) \/ page_num > p)
  /\ [][(pc = "wait" /\ pc' # "wait" /\ Candidates(dir, initial_files) = {})
          => /\ outcome'[page_num] = "timeout"
             /\ dir' = dir
             /\ downloaded_files' = downloaded_files
             /\ existing_pages' = existing_pages
             /\ pc' = "cleanup"]_vars
  /\ [][(pc = "cleanup" /\ outcome[page_num] = "timeout")
          => (pc' = "loop" /\ page_num' = page_num + 1)]_vars

\* Page 1 timed out with nothing captured for it and page 2 is under way.
C9_Witness ==
  /\ outcome[1] = "timeout"
  /\ page_num = 2
  /\ pc = "select"
  /\ ~\E f \in dir : HasPageTag(f.name, 1)

\* Candidate k of the chain under test is found and acted on.
Resolves(k) == loc_env[k] \in {"ok", "waiterr"}

\* The button candidates of the chain (the format control is no fallback
\* candidate of the Create-File chain).
ButtonCands == Cands(loc_chain) \ {0}

\* C10 as stated: when candidate A is attempted and cannot be resolved and
\* the next candidate B resolves, the method returns through B with success
\* and attempts no candidate after B.
C10_FallbackStopsAtResolved ==
  (loc_res \notin {"idle", "run"}) =>
    \A a \in ButtonCands :
      LET b == a + 1
      IN (/\ b \in ButtonCands
          /\ \E i \in 1..Len(loc_tried) : loc_tried[i] = a
          /\ loc_env[a] = "unres"
          /\ Resolves(b))
         => /\ loc_res = "true"
            /\ loc_tried[Len(loc_tried)] = b

\* The chain under test has returned or raised.
ChainDone == loc_res \notin {"idle", "run"}

\* The candidates of the chain in the order of the source.
AllInOrder(c) == [i \in 1..(LastCand(c) - FirstCand(c) + 1) |-> FirstCand(c) + i - 1]

\* C11 as stated: the Send-to and Coding-sequences steps end without
\* success only after every candidate was attempted in order, and whatever
\* way the first candidate fails the second one is attempted.
C11_FailsOnlyAfterAllCandidates ==
  (ChainDone /\ loc_chain \in {"sendto", "coding"}) =>
    /\ (loc_res # "true") => (loc_tried = AllInOrder(loc_chain))
    /\ (loc_env[1] # "ok") => (Len(loc_tried) >= 2)

\* The index in SEARCH_TERMS of the term whose run the loop variables
\* belong to (main() has moved on to the next index once close() returned).
CurrentRun == IF pc = "main" THEN termIdx - 1 ELSE termIdx

\* C12: when _select_all_checkboxes returns 0 on page P the loop is left
\* and download_fasta_protein returns, without an exception, the list as it
\* was; no export was triggered for page P and no page number after P is
\* processed.
C12_ZeroResultsEndsRun ==
  /\ [](\A p \in Pages :
          (outcome[p] = "noresults") =>
            /\ Returned /\ stop = "noresults" /\ page_num = p
            /\ p \notin ResultPages
            /\ ~\E e \in pending : e.page = p /\ e.run = CurrentRun
            /\ ~\E f \in dir : f.page = p /\ f.run = CurrentRun
            /\ \A q \in Pages : (q > p) => (outcome[q] = "none"))
  /\ [][(pc = "select" /\ outcome'[page_num] = "noresults")
          => /\ downloaded_files' = downloaded_files
             /\ UNCHANGED <<pending, dir, shown, page_num>>
             /\ pc' = "close"]_vars

\* Page 2 had no record to select after page 1 was captured: the run has
\* returned the one entry.
C12_Witness ==
  /\ outcome[1] = "captured"
  /\ outcome[2] = "noresults"
  /\ pc = "close"
  /\ Len(downloaded_files) = 1

\* The name is <namespace>_page_<page>.<ext> from its first character to
\* its last, <ext> being one or more word characters.
IsCanonical(name, page) ==
  LET pre == Safe1 \o PageTag \o Str(page) \o <<".">>
  IN /\ Len(name) > Len(pre)
     /\ SubSeq(name, 1, Len(pre)) = pre
     /\ IsWord(SubSeq(name, Len(pre) + 1, Len(name)))

\* C13 as stated: the directory never holds two files with a canonical name
\* of the same page, whatever their extensions.
C13_OneFilePerPage ==
  \A p \in Pages : Cardinality({f \in dir : IsCanonical(f.name, p)}) <= 1

\* The names the watcher can give to a finished download of page p.
CapturedNames == [p \in Pages |-> {NewFilename(Term1, p, n) : n \in FinalNames}]

\* C14: every page number in existing_pages, put there by the scan of
\* setup_driver or by the add after a capture, has a file in the directory
\* under a name the watcher gives to a capture of that page.
C14_ResumeSetHasFiles ==
  \A p \in existing_pages : \E f \in dir : f.name \in CapturedNames[p]

\* The second run found page 1 by its scan and has just captured page 2.
C14_Witness ==
  /\ termIdx = 2
  /\ pc = "cleanup"
  /\ outcome[1] = "skipped"
  /\ outcome[2] = "captured"
  /\ existing_pages = {1, 2}

\* C15: main() reaches the next term only after the browser of the term
\* before it was quit (or was never started); a browser is started only by
\* the setup of a term, when no browser is open.
C15_BrowserReleased ==
  /\ []((pc = "main") => (driver # "open"))
  /\ [][(termIdx' # termIdx) => (driver' # "open" /\ pc = "close")]_vars
  /\ [][(driver' = "open" /\ driver # "open") => (pc = "main" /\ pc' = "get")]_vars

\* The first term's collection ended by an exception, its browser was quit
\* and main() is about to start the second term.
C15_Witness ==
  /\ termIdx = 2
  /\ pc = "main"
  /\ stop = "exception"
  /\ driver = "quit"

\* C16 as stated: main() never leaves its for loop while a term of
\* SEARCH_TERMS is still to be processed.
C16_BatchReachesEveryTerm ==
  ~(pc = "aborted" /\ termIdx < Len(SEARCH_TERMS))

\* The page numbers N for which the directory holds a file whose whole
\* name is <namespace>_page_<N>.<ext>.
ExactPages(d) == {p \in Pages : \E f \in d : IsCanonical(f.name, p)}

\* C17 as stated: once setup_driver has scanned the directory,
\* existing_pages is exactly the set of pages with a file of the exact
\* form; any other file contributes nothing.
C17_ScanIsExact ==
  (pc \in {"get", "close"}) => (existing_pages = ExactPages(dir))

\* C18 as stated: when _jump_to_page has returned True for page_num, by
\* whichever method, the main window shows result page page_num.
C18_JumpShowsTarget ==
  (pc = "select") => (shown = page_num)

\* Attempt i of the chain under test found a Create-File button and
\* clicked it.
ClickedAt(i) == loc_tried[i] >= 1 /\ Resolves(loc_tried[i])

\* C19 as stated: in _configure_and_download a Create-File button is
\* clicked only when the format was selected in the format control before;
\* when the format control is not found or not set, no button is clicked
\* and the method ends without a file.
C19_CreateOnlyAfterFormat ==
  (loc_chain = "create" /\ loc_env[0] # "ok") =>
    /\ \A i \in 1..Len(loc_tried) : ~ClickedAt(i)
    /\ ChainDone => (loc_res = "false")

\* File f is the complete download, not yet renamed, of the export that
\* the iteration under way triggered, and its extension is an expected one.
OwnCompleteDownload(f) ==
  /\ f.page = page_num /\ f.run = termIdx
  /\ f.name = f.orig
  /\ Lower(SplitExt(f.orig)) \in ExpectedExts

\* C20 as stated: while the watcher polls for page_num, every complete
\* download of that page's export is a file it can pick, also one that was
\* complete before the baseline was taken.
C20_CompleteDownloadIsPicked ==
  (pc = "wait") =>
    \A f \in dir : OwnCompleteDownload(f) => (f \in Candidates(dir, initial_files))

\* C21 as stated: the loop is left for "no results" on a page only when
\* the page has no record checkbox; a page whose boxes are already selected
\* or whose clicks all raise does not end the pagination.
C21_NoResultsOnlyWithoutBoxes ==
  (stop = "noresults" /\ loc_env.find = "ok") => (loc_env.boxes = << >>)

\* download_fasta_protein of the last term has returned.
Collected ==
  \/ pc \in {"close", "aborted"}
  \/ pc = "main" /\ termIdx > Len(SEARCH_TERMS)

\* The loop body is at work on page_num.
InIteration ==
  pc \in {"select", "sendto", "coding", "config", "clicked", "wait", "cleanup"}

\* C22: when every call and every wait of the program returns, the
\* collection of a term returns; the loop body works only on page numbers
\* up to MAX_PAGES, page_num never goes back, and a page number whose
\* processing has ended is not processed again.
C22_CollectionTerminates ==
  /\ <>Collected
  /\ [](InIteration => page_num \in Pages)
  /\ [](page_num <= MAX_PAGES + 1)
  /\ [][(pc # "main") => (page_num' \in {page_num, page_num + 1})]_vars
  /\ [][(pc # "main") =>
          \A p \in Pages : (outcome[p] # "none") => (outcome'[p] = outcome[p])]_vars

\* The collection has gone through every page number up to the ceiling,
\* skipping one, with one wait ended by its timeout, and has returned.
C22_Witness ==
  /\ termIdx = Len(SEARCH_TERMS)
  /\ pc = "close"
  /\ stop = "ceiling"
  /\ page_num = MAX_PAGES + 1
  /\ \E p \in Pages : outcome[p] = "timeout"
  /\ \E p \in Pages : outcome[p] = "skipped"

\* The folder name of the term has been derived.
Named == loc_chain = "folder" /\ pc = "named"

NoUnsafeChar(name) == \A i \in 1..Len(name) : name[i] \notin UnsafeChars

WithinLimit(name) == Len(name) <= MaxFolderLen

CleanStart(name) == Len(name) > 0 => name[1] \notin StripChars

CleanEnd(name) == Len(name) > 0 => name[Len(name)] \notin StripChars

\* C23: the folder name derived from any term holds none of the characters
\* < > : " / \ | ? *, has at most 100 characters, is not empty, and neither
\* starts nor ends with a space or a dot, truncated or not.
C23_FolderNameIsSafe ==
  Named =>
    /\ NoUnsafeChar(loc_res)
    /\ WithinLimit(loc_res)
    /\ Len(loc_res) > 0
    /\ CleanStart(loc_res)
    /\ CleanEnd(loc_res)

====
